---- MODULE Spec2Model ----
(***************************************************************************)
(* The tunable lifecycle scripts of troubleshooting/ run against one       *)
(* appliance: validate_tunables.py (create, monitor, verify, delete each   *)
(* tunable of a static list) and cleanup_test_tunables.py (delete the test *)
(* tunables that were left behind).  The scripts are sequential; the       *)
(* appliance answers every request with a status or a transport failure    *)
(* and applies accepted changes through asynchronous jobs.                 *)
(***************************************************************************)
EXTENDS Integers, Sequences, FiniteSets, TLC

(***************************************************************************)
(* Bounds of the model.                                                    *)
(***************************************************************************)
\* how many entries of the static list the validation run tests
NumSpecs == 2
\* the appliance hands out the tunable ids 1..MaxId
MaxId == 5
\* the counters of polls and sleeps saturate here
MaxCount == 2
\* the longest description a function applied on its own is given
MaxDescription == 257
\* the appliance queues at most this many unfinished jobs
MaxJobs == 2

(***************************************************************************)
(* Program constants.                                                      *)
(***************************************************************************)
\* monitor_jobs(timeout_seconds=30 if tunable.type == "ZFS" else 15)
ZfsTimeout == 30
OtherTimeout == 15
\* monitor_jobs(timeout_seconds=10) after DELETE and after PUT
DeleteTimeout == 10
\* tunable.description[:255]
CommentLimit == 255

(***************************************************************************)
(* Text: a Python str is a sequence of one-character strings.              *)
(***************************************************************************)
Upper == <<"A", "B", "C", "D", "E", "F", "G", "H", "I", "J", "K", "L", "M",
           "N", "O", "P", "Q", "R", "S", "T", "U", "V", "W", "X", "Y", "Z">>
Lower == <<"a", "b", "c", "d", "e", "f", "g", "h", "i", "j", "k", "l", "m",
           "n", "o", "p", "q", "r", "s", "t", "u", "v", "w", "x", "y", "z">>

\* str.lower(), one character
LowerChar(c) ==
    IF \E n \in 1..Len(Upper) : Upper[n] = c
    THEN Lower[CHOOSE n \in 1..Len(Upper) : Upper[n] = c]
    ELSE c

\* str.lower()
lower(s) == [n \in 1..Len(s) |-> LowerChar(s[n])]

\* Python's `sub in s` on strings
Contains(sub, s) ==
    \E n \in 0..(Len(s) - Len(sub)) : SubSeq(s, n + 1, n + Len(sub)) = sub

\* A variant that sends the description as it is.
Truncate_none(s, n) == s

\* Python's s[:n]
Truncate(s, n) == SubSeq(s, 1, IF Len(s) < n THEN Len(s) ELSE n)

(***************************************************************************)
(* get_performance_tunables(): entries of the static list, in list order.  *)
(***************************************************************************)
AllTunables == <<
    [name |-> "vm.swappiness", type |-> "SYSCTL", value |-> "1",
     description |-> <<"M", "i", "n", "i", "m", "i", "z", "e", "s", " ", "s",
        "w", "a", "p", " ", "u", "s", "a", "g", "e", " ", "w", "i", "t", "h",
        " ", "1", "9", "2", "G", "B", " ", "R", "A", "M", " ", "a", "v", "a",
        "i", "l", "a", "b", "l", "e">>],
    [name |-> "zfs_arc_max", type |-> "ZFS", value |-> "164987617689",
     description |-> <<"~", "1", "5", "3", "G", "B", " ", "(", "8", "0", "%",
        " ", "o", "f", " ", "R", "A", "M", ")", " ", "A", "R", "C", " ", "m",
        "a", "x", "i", "m", "u", "m">>],
    [name |-> "zfs_arc_min", type |-> "ZFS", value |-> "8589934592",
     description |-> <<"8", "G", "B", " ", "m", "i", "n", "i", "m", "u", "m",
        " ", "A", "R", "C", " ", "s", "i", "z", "e">>] >>

get_performance_tunables == SubSeq(AllTunables, 1, NumSpecs)

\* cleanup_test_tunables.py: test_keywords
test_keywords == {
    <<"t", "e", "s", "t">>,
    <<"v", "a", "l", "i", "d", "a", "t", "i", "o", "n">>,
    <<"p", "e", "r", "f", "o", "r", "m", "a", "n", "c", "e", " ", "t", "u",
      "n", "a", "b", "l", "e", " ", "t", "e", "s", "t">> }

\* cleanup_test_tunables.py: performance_tunable_names
performance_tunable_names == {
    "vm.swappiness", "vm.vfs_cache_pressure", "vm.dirty_ratio",
    "vm.dirty_background_ratio", "vm.dirty_expire_centisecs",
    "vm.min_free_kbytes", "kernel.shmmax", "kernel.shmall",
    "net.core.rmem_max", "net.core.wmem_max", "zfs_arc_max", "zfs_arc_min" }

(***************************************************************************)
(* The appliance.                                                          *)
(***************************************************************************)
Ids == 1..MaxId

\* Tunables an appliance may hold before a script starts.
PreExisting == {
    [id |-> 1, var |-> "zfs_arc_max", value |-> "1", enabled |-> TRUE,
     comment |-> <<>>],
    [id |-> 2, var |-> "foo", value |-> "1", enabled |-> TRUE,
     comment |-> <<"T", "e", "s", "t", " ", "r", "u", "n">>],
    [id |-> 3, var |-> "bar", value |-> "1", enabled |-> TRUE,
     comment |-> <<>>] }

\* A response: requests raised an exception, or a status code arrived.
Raised == [raised |-> TRUE, status_code |-> 0]
Status(c) == [raised |-> FALSE, status_code |-> c]

\* The request timeouts are multiples of this many seconds, and the clock is
\* read only to compare it with a timeout.
RECURSIVE GCD(_, _)
GCD(a, b) == IF b = 0 THEN a ELSE GCD(b, a % b)
TickSeconds == GCD(GCD(ZfsTimeout, OtherTimeout), DeleteTimeout)

Bump(n) == IF n < MaxCount THEN n + 1 ELSE MaxCount

\* The ids of a list of tunables, and the list in id order.
IdsOf(ts) == {t.id : t \in ts}
RECURSIVE ById(_)
ById(ts) ==
    IF ts = {} THEN <<>>
    ELSE LET t == CHOOSE x \in ts : \A y \in ts : x.id <= y.id
         IN <<t>> \o ById(ts \ {t})

VARIABLES
    tunables,           \* appliance: the tunable records
    jobs,               \* appliance: the jobs that have not finished
    history,            \* appliance: the job list also holds finished jobs
    nextId,             \* appliance: the id the next created tunable gets
    script,             \* which script runs: validate_tunables.py,
                        \* cleanup_test_tunables.py or delete_all_tunables.py
    pc,                 \* where the script is
    monRet,             \* where monitor_jobs returns to
    delRet,             \* where delete_tunable returns to
    elapsed,            \* time.time() - start_time, in seconds
    mon,                \* monitor_jobs: its frame
    cr,                 \* create_tunable: its frame and result
    del,                \* delete_tunable: its frame and result
    i,                  \* main: index of the tunable under test
    exists,             \* main: result of get_tunable
    valid_tunables,     \* main: the valid list
    invalid_tunables,   \* main: the invalid list
    test_tunables,      \* the tunables still to clean up
    deleted,            \* cleanup main: counter
    failed,             \* cleanup main: counter
    exitCode,           \* the process's exit code, -1 while it runs
    given,              \* cleanup main: sys.argv has --force, and the line
                        \* read by input()
    call,               \* one function applied on its own: its name, its
                        \* arguments and what it returned
    log                 \* the requests issued for the current item

vars == <<tunables, jobs, history, nextId, script, pc, monRet, delRet, elapsed,
          mon, cr, del, i, exists, valid_tunables, invalid_tunables,
          test_tunables, deleted, failed, exitCode, given, call, log>>

appliance == <<tunables, jobs, history, nextId>>
mainVars == <<i, exists, valid_tunables, invalid_tunables, test_tunables,
              deleted, failed, exitCode, given, call>>

\* check_count, brief and grace count the polls, the 0.5 s sleeps and the 2 s
\* sleeps of the call; idle counts its returns on a poll; failures counts the
\* polls that raised or were not answered 200; after: a poll followed a failed
\* one; notbusy: a poll was not answered 200 with a RUNNING or WAITING job;
\* empty: the job list was empty when the call started.
NoMon == [timeout_seconds |-> 0, check_count |-> 0, result |-> FALSE,
          brief |-> 0, grace |-> 0, idle |-> 0, failures |-> 0,
          after |-> FALSE, notbusy |-> FALSE, empty |-> FALSE]
\* fresh: the appliance held no tunable of the name when create was called;
\* job_completed: what the job wait of the call returned ("none": no wait).
NoCr == [success |-> FALSE, tunable_id |-> 0, message |-> "", fresh |-> FALSE,
         job_completed |-> "none"]
\* hard, listed and put tell how the DELETE, the verifying list and the PUT
\* of the call were answered; puts counts the PUT requests.
NoDel == [tunable_id |-> 0, success |-> FALSE, message |-> "",
          absent |-> FALSE, hard |-> "none", listed |-> "none",
          put |-> "none", puts |-> 0]

\* No function is applied on its own.
NoCall == [fn |-> "", arg |-> <<>>, result |-> <<>>, done |-> FALSE]

\* Nothing was given on the command line or typed yet.
NoInput == [force |-> FALSE, answer |-> <<>>]

\* The labels at which a function has just returned.
ReturnLabels == {"mon_ret", "ct_ret", "gt_ret", "dt_ret", "dr_ret", "exit"}

Init ==
    /\ script \in {"validate", "cleanup", "wipe"}
    /\ tunables \in IF script = "validate" THEN {{}, PreExisting}
                     ELSE SUBSET PreExisting
    /\ jobs = <<>>
    /\ history = FALSE
    /\ nextId = Cardinality(PreExisting) + 1
    /\ pc = "start"
    /\ monRet = ""
    /\ delRet = ""
    /\ elapsed = 0
    /\ mon = NoMon
    /\ cr = NoCr
    /\ del = NoDel
    /\ i = 1
    /\ exists = FALSE
    /\ valid_tunables = <<>>
    /\ invalid_tunables = <<>>
    /\ test_tunables = <<>>
    /\ deleted = 0
    /\ failed = 0
    /\ exitCode = -1
    /\ given = NoInput
    /\ call = NoCall
    /\ log = <<>>

(***************************************************************************)
(* The appliance's jobs.  An accepted POST, DELETE or PUT spawns a job.    *)
(* The jobs of the tunable service run one at a time in the order they     *)
(* were queued: the first is RUNNING, the others are WAITING.  A job ends  *)
(* in success (its change is applied) or in failure (nothing changes).     *)
(***************************************************************************)
Job(method, arg) == [method |-> method, arg |-> arg]

HasRoom == Len(jobs) < MaxJobs

\* What a finished job leaves behind.
Applied(j) ==
    CASE j.method = "tunable.create" ->
            IF nextId \in Ids /\ \A t \in tunables : t.var /= j.arg.var
            THEN tunables \cup {[id |-> nextId, var |-> j.arg.var,
                                  value |-> j.arg.value, enabled |-> j.arg.enabled,
                                  comment |-> j.arg.comment]}
            ELSE tunables
      [] j.method = "tunable.delete" -> {t \in tunables : t.id /= j.arg}
      [] j.method = "tunable.update" ->
            {IF t.id = j.arg THEN [t EXCEPT !.enabled = FALSE] ELSE t : t \in tunables}

\* What a request does to the appliance: nothing when it is not accepted;
\* when it is, the change is applied at once (now) or a job is queued for it,
\* and a full queue takes no more jobs.
Effect(accepted, now, job) ==
    /\ now => accepted
    /\ (accepted /\ ~now) => HasRoom
    /\ jobs' = IF accepted /\ ~now THEN Append(jobs, job) ELSE jobs
    /\ tunables' = IF now THEN Applied(job) ELSE tunables
    /\ nextId' = IF now /\ job.method = "tunable.create" /\ Applied(job) /= tunables
                 THEN nextId + 1 ELSE nextId
    /\ UNCHANGED history

JobFinish ==
    /\ pc \notin ReturnLabels
    /\ jobs /= <<>>
    /\ \E ok \in BOOLEAN :
        LET j == Head(jobs)
        IN /\ tunables' = IF ok THEN Applied(j) ELSE tunables
           /\ nextId' = IF ok /\ j.method = "tunable.create" /\ Applied(j) /= tunables
                        THEN nextId + 1 ELSE nextId
    /\ jobs' = Tail(jobs)
    /\ history' = TRUE
    /\ UNCHANGED <<script, pc, monRet, delRet, elapsed, mon, cr, del,
                   mainVars, log>>

\* The wall clock, seen by the running monitor_jobs: time passes while it
\* polls and sleeps.
Tick ==
    /\ pc = "mon_loop"
    /\ mon.check_count > 0
    /\ elapsed < mon.timeout_seconds
    /\ elapsed' = elapsed + TickSeconds
    /\ UNCHANGED <<appliance, script, pc, monRet, delRet, mon, cr, del,
                   mainVars, log>>

\* GET /core/get_jobs answered with 200: the states of the listed jobs.
JobStates ==
    (IF Len(jobs) >= 1 THEN {"RUNNING"} ELSE {})
    \cup (IF Len(jobs) >= 2 THEN {"WAITING"} ELSE {})
    \cup (IF history THEN {"SUCCESS"} ELSE {})

\* running_jobs = [job for job in jobs if job.get('state') in ['RUNNING', 'WAITING']]
running_jobs(states) == states \cap {"RUNNING", "WAITING"}

Answers == {Raised, Status(200), Status(500)}

\* A request written to the log of the current item: the function that
\* issues it, its method, and the tunable id in its URL (0: none).
Req(fn, req, id) == <<fn, req, id>>


(***************************************************************************)
(* validate_tunables.py: TrueNASAPI.monitor_jobs                           *)
(***************************************************************************)
\* A caller enters monitor_jobs(timeout_seconds=t); start_time = time.time().
CallMonitor(t, ret) ==
    /\ mon' = [NoMon EXCEPT !.timeout_seconds = t,
                            !.empty = (jobs' = <<>> /\ ~history')]
    /\ elapsed' = 0
    /\ monRet' = ret
    /\ pc' = "mon_loop"

\* A variant that never runs out of time.
time_left_always(e, timeout) == e >= 0

\* A variant that halves the time allowed.
time_left_halved(e, timeout) == e + e < timeout

\* while time.time() - start_time < timeout_seconds
time_left(e, timeout) == e < timeout

\* A variant that goes on polling after a poll that failed.
poll_decision_retry(response, states) ==
    IF ~response.raised /\ response.status_code = 200
    THEN IF states = {} THEN "complete"
         ELSE IF running_jobs(states) = {} THEN "complete"
         ELSE "sleep"
    ELSE "sleep"

\* A variant that does not take an empty job list for completion.
poll_decision_nonempty(response, states) ==
    IF ~response.raised /\ response.status_code = 200
    THEN IF states /= {} /\ running_jobs(states) = {} THEN "complete"
         ELSE "sleep"
    ELSE "fallback"

\* What one poll leads to: "complete" (return True), "sleep" (time.sleep(0.5)
\* and loop) or "fallback" (time.sleep(2) and return True).
poll_decision(response, states) ==
    IF ~response.raised /\ response.status_code = 200
    THEN IF states = {} THEN "complete"
         ELSE IF running_jobs(states) = {} THEN "complete"
         ELSE "sleep"
    ELSE "fallback"

\* The frame after a poll that led to decision d.
Polled(d) ==
    CASE d = "complete" -> [mon EXCEPT !.check_count = Bump(@), !.result = TRUE,
                                       !.idle = Bump(@)]
      [] d = "sleep" -> [mon EXCEPT !.check_count = Bump(@), !.brief = Bump(@)]
      [] d = "fallback" -> [mon EXCEPT !.check_count = Bump(@), !.result = TRUE,
                                       !.grace = Bump(@)]

\* How the poll was answered, whatever the code makes of it.
Observed(response, states) ==
    IF response.raised \/ response.status_code /= 200 THEN "failed"
    ELSE IF running_jobs(states) = {} THEN "idle" ELSE "busy"

\* One pass of the while loop: the poll and what follows it.
monitor_jobs_poll ==
    /\ script = "validate"
    /\ pc = "mon_loop"
    /\ time_left(elapsed, mon.timeout_seconds)
    /\ \E response \in Answers :
        LET d == poll_decision(response, JobStates)
            seen == Observed(response, JobStates)
        IN /\ mon' = [Polled(d) EXCEPT
                        !.failures = IF seen = "failed" THEN Bump(@) ELSE @,
                        !.after = @ \/ mon.failures > 0,
                        !.notbusy = @ \/ seen /= "busy"]
           /\ pc' = IF d = "sleep" THEN "mon_loop" ELSE "mon_ret"
    /\ UNCHANGED <<appliance, script, monRet, delRet, elapsed, cr, del,
                   mainVars, log>>

\* The while condition fails: return False.
monitor_jobs_timeout ==
    /\ script = "validate"
    /\ pc = "mon_loop"
    /\ ~time_left(elapsed, mon.timeout_seconds)
    /\ mon' = [mon EXCEPT !.result = FALSE]
    /\ pc' = "mon_ret"
    /\ UNCHANGED <<appliance, script, monRet, delRet, elapsed, cr, del,
                   mainVars, log>>

\* The caller goes on: create_tunable keeps the result in job_completed and
\* only prints a warning when it is False, delete_tunable drops it.
monitor_jobs_return ==
    /\ pc = "mon_ret"
    /\ pc' = monRet
    /\ cr' = IF monRet = "ct_resolve"
             THEN [cr EXCEPT !.job_completed =
                                IF mon.result THEN "true" ELSE "false"]
             ELSE cr
    /\ mon' = NoMon
    /\ elapsed' = 0
    /\ monRet' = ""
    /\ UNCHANGED <<appliance, script, delRet, del, mainVars, log>>

(***************************************************************************)
(* validate_tunables.py: TrueNASAPI.create_tunable                         *)
(***************************************************************************)
tunable == get_performance_tunables[i]

\* The JSON body of the POST.
CreateData(t) ==
    [var |-> t.name, value |-> t.value, type |-> t.type,
     comment |-> Truncate(t.description, CommentLimit), enabled |-> TRUE]

\* The appliance takes a new tunable only under a name it does not hold.
Acceptable(data) == \A t \in tunables : t.var /= data.var

\* A variant that waits as long for a ZFS tunable as for any other.
create_timeout_flat(type) == OtherTimeout

\* timeout_seconds=30 if tunable.type == "ZFS" else 15
create_timeout(type) == IF type = "ZFS" THEN ZfsTimeout ELSE OtherTimeout

\* session.post(.../tunable): 200 starts the job monitoring, anything else
\* returns (False, None, message).
create_tunable_post ==
    /\ pc = "ct_post"
    /\ \E response \in Answers, accepted \in BOOLEAN, now \in BOOLEAN :
        /\ accepted => Acceptable(CreateData(tunable))
        /\ (~response.raised) => (accepted <=> response.status_code = 200)
        /\ Effect(accepted, now, Job("tunable.create", CreateData(tunable)))
        /\ log' = Append(log, Req("create_tunable", "POST", 0))
        /\ IF response.raised
           THEN /\ cr' = [NoCr EXCEPT !.message = "Request error",
                                      !.fresh = Acceptable(CreateData(tunable))]
                /\ pc' = "ct_ret"
                /\ UNCHANGED <<mon, elapsed, monRet>>
           ELSE IF response.status_code = 200
           THEN /\ cr' = [NoCr EXCEPT !.fresh = Acceptable(CreateData(tunable))]
                /\ CallMonitor(create_timeout(tunable.type), "ct_resolve")
           ELSE /\ cr' = [NoCr EXCEPT !.message = "HTTP error",
                                      !.fresh = Acceptable(CreateData(tunable))]
                /\ pc' = "ct_ret"
                /\ UNCHANGED <<mon, elapsed, monRet>>
    /\ UNCHANGED <<script, delRet, del, mainVars>>

\* A variant that takes the listed records whatever their var.
Named_any(name) == ById(tunables)

\* The tunables of a 200 list whose var is the name, in list order.
Named(name) == ById({t \in tunables : t.var = name})

\* verify_response = session.get(.../tunable): the id found by name, else the
\* id of the creation response (any id: it was issued by the appliance).
create_tunable_resolve ==
    /\ pc = "ct_resolve"
    /\ \E verify_response \in Answers :
        /\ log' = Append(log, Req("create_tunable", "GET", 0))
        /\ IF verify_response.raised
           THEN cr' = [cr EXCEPT !.message = "Request error"]
           ELSE IF verify_response.status_code = 200 /\ Named(tunable.name) /= <<>>
           THEN cr' = [cr EXCEPT !.success = TRUE,
                                 !.tunable_id = Named(tunable.name)[1].id,
                                 !.message = "actual ID"]
           ELSE \E creation_id \in Ids :
                    cr' = [cr EXCEPT !.success = TRUE,
                                     !.tunable_id = creation_id,
                                     !.message = "creation ID"]
    /\ pc' = "ct_ret"
    /\ UNCHANGED <<appliance, script, monRet, delRet, elapsed, mon, del, mainVars>>

(***************************************************************************)
(* validate_tunables.py: TrueNASAPI.get_tunable                            *)
(***************************************************************************)
\* A variant that searches by name before it searches by id.
get_tunable_by_name_first(response, list, tunable_id, tunable_name) ==
    IF response.raised
    THEN [exists |-> FALSE, message |-> "Error checking tunable"]
    ELSE IF response.status_code = 200
    THEN IF tunable_name /= "" /\ \E t \in list : t.var = tunable_name
         THEN [exists |-> TRUE, message |-> "found by name"]
         ELSE IF \E t \in list : t.id = tunable_id
         THEN [exists |-> TRUE, message |-> "found by id"]
         ELSE [exists |-> FALSE, message |-> "not found in system"]
    ELSE [exists |-> FALSE, message |-> "Cannot verify tunable"]

\* What get_tunable(tunable_id, tunable_name) returns for the answer to its
\* GET /tunable and the list of a 200 answer; tunable_name "" is no name.
get_tunable_result(response, list, tunable_id, tunable_name) ==
    IF response.raised
    THEN [exists |-> FALSE, message |-> "Error checking tunable"]
    ELSE IF response.status_code = 200
    THEN IF \E t \in list : t.id = tunable_id
         THEN [exists |-> TRUE, message |-> "found by id"]
         ELSE IF tunable_name /= "" /\ \E t \in list : t.var = tunable_name
         THEN [exists |-> TRUE, message |-> "found by name"]
         ELSE [exists |-> FALSE, message |-> "not found in system"]
    ELSE [exists |-> FALSE, message |-> "Cannot verify tunable"]

\* exists, check_message = api.get_tunable(tunable_id, tunable.name)
get_tunable ==
    /\ pc = "gt_list"
    /\ \E response \in Answers :
        /\ log' = Append(log, Req("get_tunable", "GET", 0))
        /\ exists' = get_tunable_result(response, tunables, cr.tunable_id,
                                        tunable.name).exists
    /\ pc' = "gt_ret"
    /\ UNCHANGED <<appliance, script, monRet, delRet, elapsed, mon, cr, del, i,
                   valid_tunables, invalid_tunables, test_tunables, deleted,
                   failed, exitCode, given, call>>

(***************************************************************************)
(* validate_tunables.py: TrueNASAPI.delete_tunable                         *)
(***************************************************************************)
Present(id) == id \in IdsOf(tunables)

\* What the appliance may answer to DELETE or PUT /tunable/id/{id}: it
\* accepts a change only of a tunable it holds.
DeleteAnswers(id) ==
    IF Present(id) THEN Answers \cup {Status(204)} ELSE {Raised, Status(404)}
PutAnswers(id) ==
    IF Present(id) THEN Answers ELSE {Raised, Status(404)}

\* A caller enters delete_tunable(tunable_id).
CallDelete(id, ret) ==
    /\ del' = [NoDel EXCEPT !.tunable_id = id, !.absent = ~Present(id)]
    /\ delRet' = ret
    /\ pc' = IF script = "validate" THEN "dt_delete" ELSE "dr_delete"

\* How a PUT was answered, whatever the code makes of it.
Answered(response) ==
    IF response.raised THEN "raised"
    ELSE IF response.status_code = 200 THEN "ok" ELSE "rejected"

\* if response.status_code in [200, 204]
delete_ok(response) == response.status_code \in {200, 204}

\* A variant that takes any status code for success.
put_ok_truthy(response) == response.status_code /= 0

\* if response.status_code == 200, of the PUT
put_ok(response) == response.status_code = 200

\* not any(t.get("id") == tunable_id for t in tunables), of a 200 list
verified_gone(verify_response, id) ==
    verify_response.status_code = 200 /\ ~Present(id)

\* Method 1: session.delete(.../tunable/id/{id}).
delete_tunable_delete ==
    /\ pc = "dt_delete"
    /\ \E response \in DeleteAnswers(del.tunable_id), accepted \in BOOLEAN,
          now \in BOOLEAN :
        /\ accepted => Present(del.tunable_id)
        /\ (~response.raised) => (accepted <=> response.status_code \in {200, 204})
        /\ Effect(accepted, now, Job("tunable.delete", del.tunable_id))
        /\ log' = Append(log, Req("delete_tunable", "DELETE", del.tunable_id))
        /\ IF response.raised
           THEN /\ del' = [del EXCEPT !.success = FALSE, !.message = "Delete error",
                                      !.hard = "raised"]
                /\ pc' = "dt_ret"
                /\ UNCHANGED <<mon, elapsed, monRet>>
           ELSE IF delete_ok(response)
           THEN /\ CallMonitor(DeleteTimeout, "dt_verify")
                /\ del' = [del EXCEPT !.hard = "ok"]
           ELSE /\ pc' = "dt_put"
                /\ del' = [del EXCEPT !.hard = "rejected"]
                /\ UNCHANGED <<mon, elapsed, monRet>>
    /\ UNCHANGED <<script, delRet, cr, mainVars>>

\* verify_response = session.get(.../tunable): gone means deleted.
delete_tunable_verify ==
    /\ pc = "dt_verify"
    /\ \E verify_response \in Answers :
        /\ log' = Append(log, Req("delete_tunable", "GET", 0))
        /\ IF verify_response.raised
           THEN /\ del' = [del EXCEPT !.success = FALSE, !.message = "Delete error",
                                      !.listed = "raised"]
                /\ pc' = "dt_ret"
           ELSE IF verified_gone(verify_response, del.tunable_id)
           THEN /\ del' = [del EXCEPT !.success = TRUE,
                                      !.message = "Deleted successfully",
                                      !.listed = "absent"]
                /\ pc' = "dt_ret"
           ELSE /\ pc' = "dt_put"
                /\ del' = [del EXCEPT !.listed =
                               IF verify_response.status_code = 200
                               THEN "present" ELSE "rejected"]
    /\ UNCHANGED <<appliance, script, monRet, delRet, elapsed, mon, cr, mainVars>>

\* Method 2: session.put(.../tunable/id/{id}, {"enabled": False}); after a
\* 200 the jobs are monitored and (True, "Disabled successfully") returned.
delete_tunable_put ==
    /\ pc = "dt_put"
    /\ \E response \in PutAnswers(del.tunable_id), accepted \in BOOLEAN,
          now \in BOOLEAN :
        /\ accepted => Present(del.tunable_id)
        /\ (~response.raised) => (accepted <=> response.status_code = 200)
        /\ Effect(accepted, now, Job("tunable.update", del.tunable_id))
        /\ log' = Append(log, Req("delete_tunable", "PUT", del.tunable_id))
        /\ IF response.raised
           THEN /\ del' = [del EXCEPT !.success = FALSE, !.message = "Delete error",
                                      !.put = "raised", !.puts = Bump(@)]
                /\ pc' = "dt_ret"
                /\ UNCHANGED <<mon, elapsed, monRet>>
           ELSE IF put_ok(response)
           THEN /\ del' = [del EXCEPT !.success = TRUE,
                                      !.message = "Disabled successfully",
                                      !.put = Answered(response), !.puts = Bump(@)]
                /\ CallMonitor(DeleteTimeout, "dt_ret")
           ELSE /\ del' = [del EXCEPT !.success = FALSE,
                                      !.message = "Failed to delete",
                                      !.put = Answered(response), !.puts = Bump(@)]
                /\ pc' = "dt_ret"
                /\ UNCHANGED <<mon, elapsed, monRet>>
    /\ UNCHANGED <<script, delRet, cr, mainVars>>

(***************************************************************************)
(* validate_tunables.py: cleanup_existing_test_tunables and main           *)
(***************************************************************************)
main_start ==
    /\ pc = "start"
    /\ script = "validate"
    /\ pc' = "ce_list"
    /\ UNCHANGED <<appliance, script, monRet, delRet, elapsed, mon, cr, del,
                   mainVars, log>>

\* 'test' in t.get('comment', '').lower()
IsTestComment(t) == Contains(<<"t", "e", "s", "t">>, lower(t.comment))

\* response = api.session.get(.../tunable); the test tunables of a 200 list.
cleanup_existing_list ==
    /\ pc = "ce_list"
    /\ \E response \in Answers :
        IF ~response.raised /\ response.status_code = 200
        THEN /\ test_tunables' = ById({t \in tunables : IsTestComment(t)})
             /\ pc' = "ce_loop"
        ELSE /\ pc' = "v_loop"
             /\ UNCHANGED test_tunables
    /\ UNCHANGED <<appliance, script, monRet, delRet, elapsed, mon, cr, del, i,
                   exists, valid_tunables, invalid_tunables, deleted, failed,
                   exitCode, log, given, call>>

\* for tunable in test_tunables: api.delete_tunable(tunable['id'])
cleanup_existing_loop ==
    /\ \/ pc = "ce_loop"
       \/ pc = "dt_ret" /\ delRet = "ce_loop"
    /\ IF test_tunables /= <<>>
       THEN /\ CallDelete(Head(test_tunables).id, "ce_loop")
            /\ test_tunables' = Tail(test_tunables)
            /\ log' = <<>>
       ELSE /\ pc' = "v_loop"
            /\ UNCHANGED <<del, delRet, test_tunables, log>>
    /\ UNCHANGED <<appliance, script, monRet, elapsed, mon, cr, i, exists,
                   valid_tunables, invalid_tunables, deleted, failed, exitCode,
                   given, call>>

\* A variant that leaves the loop once a tunable is invalid.
main_loop_until_invalid ==
    /\ pc = "v_loop"
    /\ IF i <= Len(get_performance_tunables) /\ invalid_tunables = <<>>
       THEN /\ pc' = "ct_post"
            /\ log' = <<>>
            /\ cr' = NoCr
            /\ del' = NoDel
            /\ delRet' = ""
            /\ exists' = FALSE
       ELSE /\ pc' = "results"
            /\ UNCHANGED <<log, cr, del, delRet, exists>>
    /\ UNCHANGED <<appliance, script, monRet, elapsed, mon, i, valid_tunables,
                   invalid_tunables, test_tunables, deleted, failed, exitCode,
                   given, call>>

\* for i, tunable in enumerate(tunables, 1): api.create_tunable(tunable)
main_loop ==
    /\ pc = "v_loop"
    /\ IF i <= Len(get_performance_tunables)
       THEN /\ pc' = "ct_post"
            /\ log' = <<>>
            /\ cr' = NoCr
            /\ del' = NoDel
            /\ delRet' = ""
            /\ exists' = FALSE
       ELSE /\ pc' = "results"
            /\ UNCHANGED <<log, cr, del, delRet, exists>>
    /\ UNCHANGED <<appliance, script, monRet, elapsed, mon, i, valid_tunables,
                   invalid_tunables, test_tunables, deleted, failed, exitCode,
                   given, call>>

\* A variant that deletes without verifying first.
main_after_create_unverified ==
    /\ pc = "ct_ret"
    /\ IF ~cr.success
       THEN /\ invalid_tunables' = Append(invalid_tunables,
                 [tunable |-> tunable, reason |-> <<"Create failed", cr.message>>])
            /\ i' = i + 1
            /\ pc' = "v_loop"
            /\ UNCHANGED <<del, delRet>>
       ELSE /\ CallDelete(cr.tunable_id, "main")
            /\ UNCHANGED <<invalid_tunables, i>>
    /\ UNCHANGED <<appliance, script, monRet, elapsed, mon, cr, exists,
                   valid_tunables, test_tunables, deleted, failed, exitCode,
                   log, given, call>>

\* A variant without the continue.
main_after_create_falls_through ==
    /\ pc = "ct_ret"
    /\ invalid_tunables' =
          IF ~cr.success
          THEN Append(invalid_tunables,
                      [tunable |-> tunable, reason |-> <<"Create failed", cr.message>>])
          ELSE invalid_tunables
    /\ pc' = "gt_list"
    /\ UNCHANGED <<appliance, script, monRet, delRet, elapsed, mon, cr, del, i,
                   exists, valid_tunables, test_tunables, deleted, failed,
                   exitCode, log, given, call>>

\* if not success: invalid_tunables.append(...); continue
main_after_create ==
    /\ pc = "ct_ret"
    /\ IF ~cr.success
       THEN /\ invalid_tunables' = Append(invalid_tunables,
                 [tunable |-> tunable, reason |-> <<"Create failed", cr.message>>])
            /\ i' = i + 1
            /\ pc' = "v_loop"
       ELSE /\ pc' = "gt_list"
            /\ UNCHANGED <<invalid_tunables, i>>
    /\ UNCHANGED <<appliance, script, monRet, delRet, elapsed, mon, cr, del,
                   exists, valid_tunables, test_tunables, deleted, failed,
                   exitCode, log, given, call>>

\* deleted, delete_message = api.delete_tunable(tunable_id)
main_after_get ==
    /\ pc = "gt_ret"
    /\ CallDelete(cr.tunable_id, "main")
    /\ UNCHANGED <<appliance, script, monRet, elapsed, mon, cr, mainVars, log>>

\* A variant that takes a failed delete for an invalid tunable.
main_after_delete_invalidates ==
    /\ pc = "dt_ret"
    /\ delRet = "main"
    /\ IF del.success
       THEN /\ valid_tunables' = Append(valid_tunables, tunable)
            /\ UNCHANGED invalid_tunables
       ELSE /\ invalid_tunables' = Append(invalid_tunables,
                 [tunable |-> tunable, reason |-> <<"Cleanup issue", del.message>>])
            /\ UNCHANGED valid_tunables
    /\ i' = i + 1
    /\ pc' = "v_loop"
    /\ UNCHANGED <<appliance, script, monRet, delRet, elapsed, mon, cr, del,
                   exists, test_tunables, deleted, failed, exitCode, log,
                   given, call>>

\* valid_tunables.append(tunable), whether it was deleted or not
main_after_delete ==
    /\ pc = "dt_ret"
    /\ delRet = "main"
    /\ IF del.success
       THEN valid_tunables' = Append(valid_tunables, tunable)
       ELSE valid_tunables' = Append(valid_tunables, tunable)
    /\ i' = i + 1
    /\ pc' = "v_loop"
    /\ UNCHANGED <<appliance, script, monRet, delRet, elapsed, mon, cr, del,
                   exists, invalid_tunables, test_tunables, deleted, failed,
                   exitCode, log, given, call>>

\* A variant that tolerates one invalid tunable.
exit_code_lenient(invalid) == IF Len(invalid) > 1 THEN 1 ELSE 0

\* if invalid_tunables: sys.exit(1) else: sys.exit(0)
exit_code(invalid) == IF invalid /= <<>> THEN 1 ELSE 0

\* the results are written and the process exits
main_results ==
    /\ pc = "results"
    /\ exitCode' = exit_code(invalid_tunables)
    /\ pc' = "exit"
    /\ UNCHANGED <<appliance, script, monRet, delRet, elapsed, mon, cr, del, i,
                   exists, valid_tunables, invalid_tunables, test_tunables,
                   deleted, failed, log, given, call>>

(***************************************************************************)
(* cleanup_test_tunables.py: monitor_jobs                                  *)
(***************************************************************************)
rest_poll_decision(response, states) ==
    IF ~response.raised /\ response.status_code = 200
    THEN IF states = {} THEN "complete"
         ELSE IF running_jobs(states) = {} THEN "complete"
         ELSE "sleep"
    ELSE "fallback"

rest_monitor_jobs_poll ==
    /\ script = "cleanup"
    /\ pc = "mon_loop"
    /\ elapsed < mon.timeout_seconds
    /\ \E response \in Answers :
        LET d == rest_poll_decision(response, JobStates)
            seen == Observed(response, JobStates)
        IN /\ mon' = [Polled(d) EXCEPT
                        !.failures = IF seen = "failed" THEN Bump(@) ELSE @,
                        !.after = @ \/ mon.failures > 0,
                        !.notbusy = @ \/ seen /= "busy"]
           /\ pc' = IF d = "sleep" THEN "mon_loop" ELSE "mon_ret"
    /\ UNCHANGED <<appliance, script, monRet, delRet, elapsed, cr, del,
                   mainVars, log>>

rest_monitor_jobs_timeout ==
    /\ script = "cleanup"
    /\ pc = "mon_loop"
    /\ ~(elapsed < mon.timeout_seconds)
    /\ mon' = [mon EXCEPT !.result = FALSE]
    /\ pc' = "mon_ret"
    /\ UNCHANGED <<appliance, script, monRet, delRet, elapsed, cr, del,
                   mainVars, log>>

(***************************************************************************)
(* cleanup_test_tunables.py: delete_tunable_rest                           *)
(***************************************************************************)
\* Method 1: session.delete(...); an exception is passed over.
delete_tunable_rest_delete ==
    /\ pc = "dr_delete"
    /\ \E response \in DeleteAnswers(del.tunable_id), accepted \in BOOLEAN,
          now \in BOOLEAN :
        /\ accepted => Present(del.tunable_id)
        /\ (~response.raised) => (accepted <=> response.status_code \in {200, 204})
        /\ Effect(accepted, now, Job("tunable.delete", del.tunable_id))
        /\ log' = Append(log, Req("delete_tunable_rest", "DELETE", del.tunable_id))
        /\ IF response.raised
           THEN /\ del' = [del EXCEPT !.hard = "raised"]
                /\ pc' = "dr_put"
                /\ UNCHANGED <<mon, elapsed, monRet>>
           ELSE IF response.status_code \in {200, 204}
           THEN /\ CallMonitor(DeleteTimeout, "dr_verify")
                /\ del' = [del EXCEPT !.hard = "ok"]
           ELSE /\ pc' = "dr_put"
                /\ del' = [del EXCEPT !.hard = "rejected"]
                /\ UNCHANGED <<mon, elapsed, monRet>>
    /\ UNCHANGED <<script, delRet, cr, mainVars>>

\* verify_response = session.get(.../tunable), in the same try block.
delete_tunable_rest_verify ==
    /\ pc = "dr_verify"
    /\ \E verify_response \in Answers :
        /\ log' = Append(log, Req("delete_tunable_rest", "GET", 0))
        /\ IF verify_response.raised
           THEN /\ del' = [del EXCEPT !.listed = "raised"]
                /\ pc' = "dr_put"
           ELSE IF verify_response.status_code = 200 /\ ~Present(del.tunable_id)
           THEN /\ del' = [del EXCEPT !.success = TRUE,
                                      !.message = "Deleted",
                                      !.listed = "absent"]
                /\ pc' = "dr_ret"
           ELSE /\ pc' = "dr_put"
                /\ del' = [del EXCEPT !.listed =
                               IF verify_response.status_code = 200
                               THEN "present" ELSE "rejected"]
    /\ UNCHANGED <<appliance, script, monRet, delRet, elapsed, mon, cr, mainVars>>

\* Method 2: session.put(...); anything but a 200 ends in the raise.
delete_tunable_rest_put ==
    /\ pc = "dr_put"
    /\ \E response \in PutAnswers(del.tunable_id), accepted \in BOOLEAN,
          now \in BOOLEAN :
        /\ accepted => Present(del.tunable_id)
        /\ (~response.raised) => (accepted <=> response.status_code = 200)
        /\ Effect(accepted, now, Job("tunable.update", del.tunable_id))
        /\ log' = Append(log, Req("delete_tunable_rest", "PUT", del.tunable_id))
        /\ IF response.raised
           THEN /\ del' = [del EXCEPT !.success = FALSE,
                                      !.message = "Failed using all methods",
                                      !.put = "raised", !.puts = Bump(@)]
                /\ pc' = "dr_ret"
                /\ UNCHANGED <<mon, elapsed, monRet>>
           ELSE IF response.status_code = 200
           THEN /\ del' = [del EXCEPT !.success = TRUE, !.message = "Deleted",
                                      !.put = "ok", !.puts = Bump(@)]
                /\ CallMonitor(DeleteTimeout, "dr_ret")
           ELSE /\ del' = [del EXCEPT !.success = FALSE,
                                      !.message = "Failed using all methods",
                                      !.put = "rejected", !.puts = Bump(@)]
                /\ pc' = "dr_ret"
                /\ UNCHANGED <<mon, elapsed, monRet>>
    /\ UNCHANGED <<script, delRet, cr, mainVars>>

(***************************************************************************)
(* cleanup_test_tunables.py: get_tunables_rest and main                    *)
(***************************************************************************)
\* A variant that does not lower-case the comment.
is_test_cased(t) == \E keyword \in test_keywords : Contains(keyword, t.comment)

\* any(keyword in comment for keyword in test_keywords), comment lower-cased
is_test(t) == \E keyword \in test_keywords : Contains(keyword, lower(t.comment))
is_performance(t) == t.var \in performance_tunable_names

\* What the operator may type at the prompt.
Inputs == {<<"y">>, <<"Y">>, <<"n">>, <<>>}

\* The command line and the prompt: with --force nothing is read.
Given == {[force |-> TRUE, answer |-> <<>>]}
            \cup {[force |-> FALSE, answer |-> a] : a \in Inputs}

\* A variant that goes on unless the answer is a no.
confirmed_unless_no(force, answer) == force \/ lower(answer) /= <<"n">>

\* confirm = 'y' with --force, else input(...).lower(); confirm == 'y'
confirmed(force, answer) ==
    (IF force THEN <<"y">> ELSE lower(answer)) = <<"y">>

\* tunables = get_tunables_rest(...); the candidates; the confirmation.
\* A failed list is the outer except: sys.exit(1).
cleanup_main_list ==
    /\ pc = "start"
    /\ script = "cleanup"
    /\ \E response \in Answers :
        LET found == ById({t \in tunables : is_test(t) \/ is_performance(t)})
        IN IF response.raised \/ response.status_code /= 200
           THEN /\ exitCode' = 1
                /\ pc' = "exit"
                /\ UNCHANGED <<test_tunables, given>>
           ELSE IF found = <<>>
           THEN /\ exitCode' = 0
                /\ pc' = "exit"
                /\ UNCHANGED <<test_tunables, given>>
           ELSE \E g \in Given :
                /\ test_tunables' = found
                /\ given' = g
                /\ IF confirmed(g.force, g.answer)
                   THEN pc' = "cu_loop" /\ UNCHANGED exitCode
                   ELSE pc' = "exit" /\ exitCode' = 0
    /\ UNCHANGED <<appliance, script, monRet, delRet, elapsed, mon, cr, del, i,
                   exists, valid_tunables, invalid_tunables, deleted, failed,
                   log, call>>

\* for tunable in test_tunables: delete_tunable_rest(host, headers, tunable_id)
cleanup_main_loop ==
    /\ pc = "cu_loop"
    /\ IF i <= Len(test_tunables)
       THEN /\ CallDelete(test_tunables[i].id, "cu_loop")
            /\ log' = <<>>
            /\ UNCHANGED exitCode
       ELSE /\ pc' = "exit"
            /\ exitCode' = 0
            /\ UNCHANGED <<del, delRet, log>>
    /\ UNCHANGED <<appliance, script, monRet, elapsed, mon, cr, i, exists,
                   valid_tunables, invalid_tunables, test_tunables, deleted,
                   failed, given, call>>

\* A variant that gives up at the first tunable it cannot delete.
cleanup_main_after_delete_stops ==
    /\ pc = "dr_ret"
    /\ IF del.success
       THEN /\ deleted' = deleted + 1
            /\ pc' = "cu_loop"
            /\ UNCHANGED <<failed, exitCode>>
       ELSE /\ failed' = failed + 1
            /\ pc' = "exit"
            /\ exitCode' = 0
            /\ UNCHANGED deleted
    /\ i' = i + 1
    /\ UNCHANGED <<appliance, script, monRet, delRet, elapsed, mon, cr, del,
                   exists, valid_tunables, invalid_tunables, test_tunables,
                   log, given, call>>

\* deleted += 1 after a return, failed += 1 after the exception
cleanup_main_after_delete ==
    /\ pc = "dr_ret"
    /\ IF del.success
       THEN /\ deleted' = deleted + 1
            /\ UNCHANGED failed
       ELSE /\ failed' = failed + 1
            /\ UNCHANGED deleted
    /\ i' = i + 1
    /\ pc' = "cu_loop"
    /\ UNCHANGED <<appliance, script, monRet, delRet, elapsed, mon, cr, del,
                   exists, valid_tunables, invalid_tunables, test_tunables,
                   exitCode, log, given, call>>

(***************************************************************************)
(* delete_all_tunables.py: delete_all_tunables                             *)
(***************************************************************************)
\* response.raise_for_status(): an HTTPError for the 4xx and 5xx answers
raise_for_status(response) ==
    response.status_code >= 400 /\ response.status_code < 600

\* response = requests.get(.../tunable); a failure is the outer except:
\* sys.exit(1); an empty list returns.
delete_all_tunables_list ==
    /\ pc = "start"
    /\ script = "wipe"
    /\ \E response \in Answers :
        IF response.raised \/ raise_for_status(response)
        THEN /\ exitCode' = 1
             /\ pc' = "exit"
             /\ UNCHANGED <<test_tunables, i, deleted, failed>>
        ELSE /\ test_tunables' = ById(tunables)
             /\ i' = 1
             /\ deleted' = 0
             /\ failed' = 0
             /\ IF tunables = {}
                THEN exitCode' = 0 /\ pc' = "exit"
                ELSE pc' = "da_loop" /\ UNCHANGED exitCode
    /\ UNCHANGED <<appliance, script, monRet, delRet, elapsed, mon, cr, del,
                   exists, valid_tunables, invalid_tunables, log, given, call>>

\* for tunable in tunables: requests.delete(.../tunable/id/{tunable_id});
\* deleted_count += 1 unless the request or raise_for_status() raises, and
\* then failed_count += 1.  After the loop the function returns.
delete_all_tunables_loop ==
    /\ pc = "da_loop"
    /\ IF i <= Len(test_tunables)
       THEN \E delete_response \in DeleteAnswers(test_tunables[i].id),
               accepted \in BOOLEAN, now \in BOOLEAN :
              /\ accepted => Present(test_tunables[i].id)
              /\ (~delete_response.raised) =>
                    (accepted <=> delete_response.status_code \in {200, 204})
              /\ Effect(accepted, now, Job("tunable.delete", test_tunables[i].id))
              /\ log' = Append(log, Req("delete_all_tunables", "DELETE", test_tunables[i].id))
              /\ IF delete_response.raised \/ raise_for_status(delete_response)
                 THEN failed' = failed + 1 /\ UNCHANGED deleted
                 ELSE deleted' = deleted + 1 /\ UNCHANGED failed
              /\ i' = i + 1
              /\ UNCHANGED <<pc, exitCode>>
       ELSE /\ pc' = "exit"
            /\ exitCode' = 0
            /\ UNCHANGED <<appliance, i, deleted, failed, log>>
    /\ UNCHANGED <<script, monRet, delRet, elapsed, mon, cr, del, exists,
                   valid_tunables, invalid_tunables, test_tunables, given,
                   call>>

Next ==
    \/ JobFinish
    \/ Tick
    \/ monitor_jobs_poll
    \/ monitor_jobs_timeout
    \/ monitor_jobs_return
    \/ create_tunable_post
    \/ create_tunable_resolve
    \/ get_tunable
    \/ delete_tunable_delete
    \/ delete_tunable_verify
    \/ delete_tunable_put
    \/ main_start
    \/ cleanup_existing_list
    \/ cleanup_existing_loop
    \/ main_loop
    \/ main_after_create
    \/ main_after_get
    \/ main_after_delete
    \/ main_results
    \/ rest_monitor_jobs_poll
    \/ rest_monitor_jobs_timeout
    \/ delete_tunable_rest_delete
    \/ delete_tunable_rest_verify
    \/ delete_tunable_rest_put
    \/ cleanup_main_list
    \/ cleanup_main_loop
    \/ cleanup_main_after_delete
    \/ delete_all_tunables_list
    \/ delete_all_tunables_loop

Spec == Init /\ [][Next]_vars

\* The running monitor_jobs: its first pass of the loop is made, the clock
\* advances while it polls and sleeps, and the loop is left once its
\* condition fails.  Nothing is asked of the jobs or of the answers.
first_poll ==
    /\ mon.check_count = 0
    /\ monitor_jobs_poll \/ rest_monitor_jobs_poll

MonitorFairness ==
    /\ WF_vars(first_poll)
    /\ WF_vars(Tick)
    /\ WF_vars(monitor_jobs_timeout \/ rest_monitor_jobs_timeout)

FairSpec == Spec /\ MonitorFairness

(***************************************************************************)
(* The functions applied on their own, to arguments the static list does   *)
(* not hold.                                                               *)
(***************************************************************************)
\* A description of n characters.
Text(n) == [k \in 1..n |-> Lower[(k % Len(Lower)) + 1]]

\* Tunable(name, type, value, description) with descriptions of every
\* length up to MaxDescription, and the entries of the static list.
Tunables ==
    {[name |-> "vm.swappiness", type |-> "SYSCTL", value |-> "1",
      description |-> Text(n)] : n \in 0..MaxDescription}
    \cup {AllTunables[k] : k \in 1..Len(AllTunables)}

\* The names get_tunable is called with: none, and names of tunables.
Names == {"", "zfs_arc_max", "foo", "vm.swappiness"}

Calls ==
    {[fn |-> "create_tunable", arg |-> t, result |-> <<>>, done |-> FALSE] :
        t \in Tunables}
    \cup {[fn |-> "get_tunable",
           arg |-> [response |-> r, list |-> l, tunable_id |-> id,
                    tunable_name |-> n],
           result |-> <<>>, done |-> FALSE] :
        r \in Answers, l \in SUBSET PreExisting, id \in Ids, n \in Names}

InitCall ==
    /\ script = "call"
    /\ pc = "call"
    /\ call \in Calls
    /\ tunables = {}
    /\ jobs = <<>>
    /\ history = FALSE
    /\ nextId = 1
    /\ monRet = ""
    /\ delRet = ""
    /\ elapsed = 0
    /\ mon = NoMon
    /\ cr = NoCr
    /\ del = NoDel
    /\ i = 1
    /\ exists = FALSE
    /\ valid_tunables = <<>>
    /\ invalid_tunables = <<>>
    /\ test_tunables = <<>>
    /\ deleted = 0
    /\ failed = 0
    /\ exitCode = -1
    /\ given = NoInput
    /\ log = <<>>

\* create_tunable builds the JSON body of its POST.
create_tunable_data ==
    /\ call.fn = "create_tunable"
    /\ ~call.done
    /\ call' = [call EXCEPT !.result = CreateData(call.arg), !.done = TRUE]
    /\ UNCHANGED <<appliance, script, pc, monRet, delRet, elapsed, mon, cr, del,
                   i, exists, valid_tunables, invalid_tunables, test_tunables,
                   deleted, failed, exitCode, given, log>>

\* get_tunable on the answer to its GET /tunable.
get_tunable_call ==
    /\ call.fn = "get_tunable"
    /\ ~call.done
    /\ call' = [call EXCEPT
                  !.result = get_tunable_result(call.arg.response, call.arg.list,
                                 call.arg.tunable_id, call.arg.tunable_name),
                  !.done = TRUE]
    /\ UNCHANGED <<appliance, script, pc, monRet, delRet, elapsed, mon, cr, del,
                   i, exists, valid_tunables, invalid_tunables, test_tunables,
                   deleted, failed, exitCode, given, log>>

NextCall ==
    \/ create_tunable_data
    \/ get_tunable_call

CallSpec == InitCall /\ [][NextCall]_vars

(***************************************************************************)
(* Properties.                                                             *)
(***************************************************************************)
\* delete_tunable or delete_tunable_rest has just returned.
DelReturned == pc \in {"dt_ret", "dr_ret"}

\* monitor_jobs has just returned.
MonReturned == pc = "mon_ret"

\* The record the appliance holds under the id of the delete call, if any.
Target == {t \in tunables : t.id = del.tunable_id}

InValid(t) == \E n \in 1..Len(valid_tunables) : valid_tunables[n] = t
InInvalid(t) == \E n \in 1..Len(invalid_tunables) : invalid_tunables[n].tunable = t

\* C1: when the list that follows an accepted DELETE still holds the id, the
\* PUT enabled=false is issued exactly once, and delete reports success
\* exactly when that PUT was answered 200.
C1_DisableOnceDecides ==
    /\ del.puts <= 1
    /\ (DelReturned /\ del.listed = "present") =>
          /\ del.puts = 1
          /\ del.success <=> del.put = "ok"

C1_Witness ==
    DelReturned /\ del.listed = "present" /\ del.put = "ok" /\ del.success

\* C2: whenever delete reports success, the appliance holds no record with
\* that id or holds it with enabled == false.
C2_SuccessMeansGoneOrDisabled ==
    (DelReturned /\ del.success) => \A t \in Target : ~t.enabled

\* C3: delete reports failure only after both phases failed: the DELETE was
\* attempted and did not leave the record absent, and the PUT was attempted
\* and was not answered 200.
C3_FailureOnlyAfterBothPhases ==
    (DelReturned /\ ~del.success) =>
        /\ del.hard /= "none"
        /\ del.listed /= "absent"
        /\ del.puts = 1
        /\ del.put /= "ok"

\* C4: delete called for an id the appliance does not hold succeeds and
\* never issues the PUT enabled=false.
C4_AbsentIdSucceedsWithoutDisable ==
    (DelReturned /\ del.absent) => (del.success /\ del.puts = 0)

\* C5: in the validation workflow the tunable just tested is in the valid
\* list exactly when its create reported success, and in the invalid list
\* exactly when it did not, whatever verification and delete reported.
C5_ValidIffCreated ==
    (script = "validate" /\ pc = "v_loop" /\ i > 1) =>
        LET t == get_performance_tunables[i - 1]
        IN /\ InValid(t) <=> cr.success
           /\ InInvalid(t) <=> ~cr.success

C5_Witness ==
    /\ script = "validate" /\ pc = "v_loop" /\ i > 1
    /\ cr.success /\ ~exists /\ ~del.success
    /\ InValid(get_performance_tunables[i - 1])

C7_FalseOnlyAfterTimeout ==
    (MonReturned /\ ~mon.result) =>
        /\ elapsed >= mon.timeout_seconds
        /\ mon.failures = 0
        /\ ~mon.notbusy

C7_Witness ==
    MonReturned /\ ~mon.result /\ mon.check_count >= 1 /\ jobs /= <<>>

\* C8: a poll that raises or is not answered 200 makes monitor_jobs return
\* true after one grace sleep, whatever the jobs are doing and without
\* another poll.
C8_FailedPollReturnsTrue ==
    /\ pc = "mon_loop" => mon.failures = 0
    /\ (MonReturned /\ mon.failures > 0) =>
          /\ mon.result
          /\ mon.failures = 1
          /\ mon.grace = 1
          /\ ~mon.after

C8_Witness ==
    MonReturned /\ mon.failures = 1 /\ mon.brief >= 1 /\ jobs /= <<>>

\* C9: the validation process exits with code 0 when the invalid list is
\* empty after the loop and with code 1 otherwise.
C9_ExitCodeIffNoInvalid ==
    (script = "validate" /\ pc = "exit") =>
        /\ exitCode \in {0, 1}
        /\ exitCode = 0 <=> invalid_tunables = <<>>

C9_Witness ==
    /\ script = "validate" /\ pc = "exit" /\ exitCode = 0
    /\ Len(valid_tunables) = NumSpecs
    /\ ~del.success

\* C10: when create fails the tunable is recorded invalid with a
\* create-failed reason, neither get_tunable nor delete_tunable issued a
\* request for it, and the loop is at its head for the next tunable.
C10_CreateFailureSkipsTheRest ==
    (script = "validate" /\ pc = "v_loop" /\ i > 1 /\ ~cr.success) =>
        /\ invalid_tunables /= <<>>
        /\ LET last == invalid_tunables[Len(invalid_tunables)]
           IN /\ last.tunable = get_performance_tunables[i - 1]
              /\ last.reason[1] = "Create failed"
        /\ ~InValid(get_performance_tunables[i - 1])
        /\ \A n \in 1..Len(log) : log[n][1] = "create_tunable"

C10_Witness ==
    /\ script = "validate" /\ pc = "v_loop" /\ i > 1 /\ i <= NumSpecs
    /\ ~cr.success
    /\ Len(log) = 2

\* The listed records of the tunable under test.
Entries == {t \in tunables : t.var = tunable.name}

\* create_tunable / the main loop's delete_tunable has just returned for a
\* tunable whose name the appliance did not hold when create was called.
CreatedFresh == script = "validate" /\ pc = "ct_ret" /\ cr.success /\ cr.fresh
DeletedFresh ==
    /\ script = "validate" /\ pc = "dt_ret" /\ delRet = "main"
    /\ cr.fresh /\ del.success

\* C11 as stated: on an appliance that held no tunable of the name, after
\* create reports success the list shows exactly one entry of the name, with
\* the value of the spec; after the delete of the returned id reports
\* success the list shows no entry of the name.
C11_CreateThenDeleteEndToEnd ==
    /\ CreatedFresh =>
          /\ Cardinality(Entries) = 1
          /\ \A t \in Entries : t.value = tunable.value
    /\ DeletedFresh => Entries = {}

\* C11 amended: the same, after a create that reports success with an id
\* re-resolved from the list (the one entry then has the returned id), and
\* after a delete of that id that reports success by the hard-delete path.
C11_ResolvedCreateThenHardDelete ==
    /\ (CreatedFresh /\ cr.message = "actual ID") =>
          /\ Cardinality(Entries) = 1
          /\ \A t \in Entries : t.value = tunable.value /\ t.id = cr.tunable_id
    /\ (DeletedFresh /\ cr.message = "actual ID"
          /\ del.message = "Deleted successfully") => Entries = {}

C11_Witness ==
    /\ DeletedFresh /\ cr.message = "actual ID"
    /\ del.message = "Deleted successfully"
    /\ history

\* delete_all_tunables has run to its end over a list that was not empty.
WipeCompleted ==
    script = "wipe" /\ pc = "exit" /\ exitCode = 0 /\ test_tunables /= <<>>

\* C12: when the full wipe completes, deleted_count + failed_count is the
\* number of tunables the list returned, and when every DELETE succeeded
\* the appliance holds no tunable.
C12_WipeCountsAndLeavesNone ==
    WipeCompleted =>
        /\ deleted + failed = Len(test_tunables)
        /\ failed = 0 => tunables = {}

\* The ids of a list of tunables.
ListedIds(list) == {list[n].id : n \in 1..Len(list)}

\* C13: the candidates of the selective cleanup are exactly the listed
\* tunables whose lower-cased comment contains a keyword or whose var is a
\* known name (of the ids 1 zfs_arc_max, 2 "Test run", 3 neither: 1 and 2),
\* and every DELETE or PUT of the run goes to a candidate.
C13_CandidatesExactlyTheMatching ==
    script = "cleanup" =>
        /\ (pc = "cu_loop" /\ i = 1) =>
              /\ ListedIds(test_tunables) =
                    {t.id : t \in {x \in tunables :
                        \/ \E keyword \in test_keywords :
                              Contains(keyword, lower(x.comment))
                        \/ x.var \in performance_tunable_names}}
              /\ tunables = PreExisting => ListedIds(test_tunables) = {1, 2}
        /\ \A n \in 1..Len(log) :
              /\ log[n][2] \in {"DELETE", "PUT"} =>
                    log[n][3] \in ListedIds(test_tunables)
              /\ log[n][2] \notin {"DELETE", "PUT"} => log[n][3] = 0

C13_Witness ==
    /\ script = "cleanup" /\ pc = "exit" /\ exitCode = 0
    /\ Cardinality(tunables) = 3
    /\ ListedIds(test_tunables) = {1, 2}
    /\ i = 3
    /\ Len(log) >= 2 /\ log[1][3] = 2 /\ log[2][2] = "PUT"

\* A step of the selective cleanup that issues a DELETE or a PUT, or after
\* which the appliance holds other tunables or other jobs.
CleanupTouches ==
    \/ tunables' /= tunables
    \/ jobs' /= jobs
    \/ /\ log' /= log
       /\ log' /= <<>>
       /\ log'[Len(log')][2] \in {"DELETE", "PUT"}

\* C14 as stated: the selective cleanup issues no DELETE or PUT and leaves
\* the tunables as they are unless --force was given or the answer was y.
C14_NoRequestUnlessForceOrY ==
    [][(script = "cleanup" /\ CleanupTouches)
          => (given'.force \/ given'.answer = <<"y">>)]_vars

\* C14 amended: the same, unless --force was given or the answer,
\* lower-cased, was y.
C14_NoRequestUnlessForceOrYAnyCase ==
    [][(script = "cleanup" /\ CleanupTouches)
          => (given'.force \/ lower(given'.answer) = <<"y">>)]_vars

C14_Witness ==
    /\ script = "cleanup" /\ pc = "exit" /\ exitCode = 0
    /\ ~given.force /\ given.answer = <<"n">>
    /\ ListedIds(test_tunables) = {1, 2}
    /\ tunables = PreExisting /\ jobs = <<>> /\ log = <<>>

\* C15: every call of monitor_jobs returns, whatever the jobs do and
\* however the polls are answered, given that the clock advances.
C15_MonitorTerminates == (pc = "mon_loop") ~> MonReturned

C15_Witness ==
    /\ MonReturned /\ ~mon.result /\ script = "cleanup"
    /\ elapsed = mon.timeout_seconds
    /\ Len(jobs) = 1 /\ ~history

\* s is the beginning of t.
IsPrefix(s, t) == Len(s) <= Len(t) /\ s = SubSeq(t, 1, Len(s))

\* C16: the comment of the create request has at most 255 characters and
\* is the beginning of the description, and the whole of a description of
\* at most 255 characters.
C16_CommentIsPrefixOfAtMost255 ==
    (call.fn = "create_tunable" /\ call.done) =>
        /\ Len(call.result.comment) <= 255
        /\ IsPrefix(call.result.comment, call.arg.description)
        /\ Len(call.arg.description) <= 255 =>
              call.result.comment = call.arg.description

C16_Witness ==
    /\ call.fn = "create_tunable" /\ call.done
    /\ Len(call.arg.description) = 256
    /\ Len(call.result.comment) = 255

\* create_tunable has just returned after its POST was answered 200: it
\* went on to list the tunables.
CreateReturnedAfter200 ==
    /\ script = "validate" /\ pc = "ct_ret"
    /\ Len(log) = 2 /\ log[2] = Req("create_tunable", "GET", 0)

\* C17: once the POST was answered 200, create reports success: with the
\* id of a listed record of the name when the list holds one, and with the
\* id of the creation response when the list is not answered 200, raises,
\* or holds no record of the name.
C17_Post200MeansSuccess ==
    CreateReturnedAfter200 =>
        /\ cr.success
        /\ cr.message \in {"actual ID", "creation ID"}
        /\ cr.message = "actual ID" =>
              \E t \in Entries : t.id = cr.tunable_id
        /\ Entries = {} => cr.message = "creation ID"

\* C18: get_tunable returns a result for every answer: found exactly when
\* a 200 list holds a record of the id or, a name being given, a record of
\* the name, the match by id being the one reported when there is one; for
\* a list that is not answered 200 or raises, not found with a message.
C18_FoundByIdThenName ==
    (call.fn = "get_tunable" /\ call.done) =>
        LET a == call.arg
            ok == ~a.response.raised /\ a.response.status_code = 200
            byId == \E t \in a.list : t.id = a.tunable_id
            byName == a.tunable_name /= "" /\ \E t \in a.list : t.var = a.tunable_name
        IN /\ call.result.exists \in BOOLEAN
           /\ call.result.exists <=> (ok /\ (byId \/ byName))
           /\ (ok /\ byId) => call.result.message = "found by id"
           /\ (ok /\ ~byId /\ byName) => call.result.message = "found by name"
           /\ ~ok => call.result.message \in {"Cannot verify tunable",
                                              "Error checking tunable"}

C18_Witness ==
    /\ call.fn = "get_tunable" /\ call.done
    /\ call.arg.list = PreExisting
    /\ call.arg.tunable_id = 1 /\ call.arg.tunable_name = "foo"
    /\ call.arg.response = Status(200)
    /\ call.result.message = "found by id"

\* How many entries of the valid and of the invalid list are the tunable.
TimesValid(t) == Cardinality({n \in 1..Len(valid_tunables) : valid_tunables[n] = t})
TimesInvalid(t) ==
    Cardinality({n \in 1..Len(invalid_tunables) : invalid_tunables[n].tunable = t})

\* The place of a tunable in the static list.
Place(t) == CHOOSE k \in 1..Len(get_performance_tunables) :
                get_performance_tunables[k] = t

\* C19: the validation run takes the tunables of the static list once each
\* and in list order: those before the one under test are each once in
\* exactly one of the two lists, the others in none, both lists are in list
\* order, and the run ends only after the last one, with as many entries in
\* the two lists as the static list has.
C19_EverySpecOnceInOneList ==
    script = "validate" =>
        /\ i \in 1..(Len(get_performance_tunables) + 1)
        /\ \A k \in 1..Len(get_performance_tunables) :
              TimesValid(get_performance_tunables[k])
                + TimesInvalid(get_performance_tunables[k])
                    = IF k < i THEN 1 ELSE 0
        /\ \A m, n \in 1..Len(valid_tunables) :
              m < n => Place(valid_tunables[m]) < Place(valid_tunables[n])
        /\ \A m, n \in 1..Len(invalid_tunables) :
              m < n => Place(invalid_tunables[m].tunable)
                          < Place(invalid_tunables[n].tunable)
        /\ pc \in {"results", "exit"} =>
              /\ i = Len(get_performance_tunables) + 1
              /\ Len(valid_tunables) + Len(invalid_tunables)
                    = Len(get_performance_tunables)

C19_Witness ==
    /\ script = "validate" /\ pc = "exit"
    /\ Len(invalid_tunables) = 1 /\ Len(valid_tunables) = NumSpecs - 1
    /\ invalid_tunables[1].tunable = get_performance_tunables[1]
    /\ ~del.success

\* The step of the per-tunable sequence a function belongs to.
Stage(fn) ==
    CASE fn = "create_tunable" -> 1
      [] fn = "get_tunable" -> 2
      [] fn = "delete_tunable" -> 3

\* The main loop of the validation run is at work on a tunable.
InMainLoop ==
    /\ script = "validate"
    /\ delRet /= "ce_loop"
    /\ pc \notin {"start", "ce_list", "ce_loop"}

\* The requests of the tunable under test, as far as they have been issued:
\* the POST first, create before get_tunable before delete_tunable, one
\* POST and one verifying list, delete_tunable only after that list and
\* only for the id of a create that succeeded.
RequestsInOrder ==
    /\ log /= <<>> => log[1] = Req("create_tunable", "POST", 0)
    /\ \A m, n \in 1..Len(log) :
          m < n => /\ Stage(log[m][1]) <= Stage(log[n][1])
                   /\ log[n][2] /= "POST"
                   /\ log[n][1] = "get_tunable" => log[m][1] /= "get_tunable"
                   /\ log[n][2] = "DELETE" => log[m][1] /= "delete_tunable"
                   /\ log[m][2] /= "PUT"
    /\ \A n \in 1..Len(log) :
          /\ Stage(log[n][1]) > 1 => cr.success
          /\ log[n][1] = "delete_tunable" =>
                \E m \in 1..(n - 1) : log[m][1] = "get_tunable"
          /\ log[n][2] \in {"DELETE", "PUT"} => log[n][3] = cr.tunable_id
    /\ (pc = "mon_loop" /\ monRet = "ct_resolve") =>
          log = <<Req("create_tunable", "POST", 0)>>
    /\ (pc = "v_loop" /\ i > 1 /\ cr.success) =>
          \E n \in 1..Len(log) : log[n][2] = "DELETE"

\* The steps between the requests: the jobs are monitored between the POST
\* and the list that resolves the id, and the next tunable is taken up only
\* when delete_tunable has returned or create has failed.
StepsInOrder ==
    /\ (pc' = "ct_resolve" /\ pc /= "ct_resolve") =>
          (pc = "mon_ret" /\ mon.check_count >= 1)
    /\ (pc' = "mon_loop" /\ pc /= "mon_loop" /\ monRet' = "ct_resolve") =>
          pc = "ct_post"
    /\ i' /= i =>
          \/ pc = "dt_ret" /\ delRet = "main"
          \/ pc = "ct_ret" /\ ~cr.success

\* C20: for one tunable the validation run issues its requests in the
\* order create POST, job monitoring, verifying list, delete or disable,
\* and records the outcome; it issues no request for the next tunable
\* before delete_tunable has returned for this one, and no DELETE or PUT
\* for a tunable whose create did not succeed.
C20_CreateMonitorVerifyDelete ==
    /\ [](InMainLoop => RequestsInOrder)
    /\ [][(InMainLoop /\ script' = script) => StepsInOrder]_vars

C20_Witness ==
    /\ InMainLoop /\ pc = "v_loop" /\ i = 2
    /\ Len(log) = 6
    /\ log[6][2] = "PUT"
    /\ valid_tunables = <<get_performance_tunables[1]>>

\* The requests delete_tunable or delete_tunable_rest has issued in its
\* call, by method and in the order they were issued.
DeleteRequests ==
    LET own == SelectSeq(log, LAMBDA r :
                   r[1] \in {"delete_tunable", "delete_tunable_rest"})
    IN [n \in 1..Len(own) |-> own[n][2]]

\* The requests delete_tunable_rest issues, for the answer to its DELETE and
\* to its verifying list: the list after a DELETE answered 200 or 204, the
\* PUT unless that list was answered 200 without the id.
delete_tunable_rest_requests(hard, listed) ==
    <<"DELETE">>
        \o (IF hard = "ok" THEN <<"GET">> ELSE <<>>)
        \o (IF listed = "absent" THEN <<>> ELSE <<"PUT">>)

\* delete_tunable_rest returns True after that list or after a PUT answered
\* 200, and raises otherwise.
delete_tunable_rest_success(listed, put) == listed = "absent" \/ put = "ok"

\* C21: delete_tunable and delete_tunable_rest are the same two-phase
\* logic: their job monitors decide every poll alike, and for every way the
\* DELETE, the verifying list and the PUT are answered or fail, each of the
\* two issues the same requests in the same order and reports success in
\* the same cases.
C21_SameTwoPhaseLogic ==
    /\ \A response \in Answers, states \in SUBSET {"RUNNING", "WAITING", "SUCCESS"} :
          rest_poll_decision(response, states) = poll_decision(response, states)
    /\ DelReturned =>
          /\ DeleteRequests = delete_tunable_rest_requests(del.hard, del.listed)
          /\ del.success <=> delete_tunable_rest_success(del.listed, del.put)

\* The job wait of create_tunable is running or has just returned.
CreateWait ==
    script = "validate" /\ pc \in {"mon_loop", "mon_ret"} /\ monRet = "ct_resolve"

\* The job wait of the tunable the main loop is at work on returned False.
WaitTimedOut == InMainLoop /\ cr.job_completed = "false"

\* A request of the function and the method is in the log of the item.
HasRequest(fn, req) == \E n \in 1..Len(log) : log[n][1] = fn /\ log[n][2] = req

CreateFailedFresh ==
    /\ script = "validate" /\ ~cr.success /\ cr.fresh
    /\ pc = "ct_ret" \/ (pc = "v_loop" /\ i > 1)
FailedName ==
    get_performance_tunables[IF pc = "ct_ret" THEN i ELSE i - 1].name

\* C23: whenever create reports failure, so that the tunable is recorded
\* invalid and no delete is attempted, the appliance holds no record of the
\* name that the call created, nor a job that is still to create one.
C23_FailedCreateLeavesNoRecord ==
    CreateFailedFresh =>
        /\ \A t \in tunables : t.var /= FailedName
        /\ \A n \in 1..Len(jobs) :
              ~(jobs[n].method = "tunable.create" /\ jobs[n].arg.var = FailedName)

\* The ids of the records an appliance may hold before the run starts; the
\* run's own records get the ids after them.
EarlierIds == IdsOf(PreExisting)

\* C24: after the pre-cleanup the main loop of the validation run sends its
\* DELETE and PUT requests only to records created by this run: none goes
\* to the id of a tunable that was on the appliance before the run started,
\* and no such tunable is deleted or disabled by a call of the loop.
C24_LoopTouchesOnlyOwnRecords ==
    InMainLoop =>
        /\ \A n \in 1..Len(log) :
              log[n][2] \in {"DELETE", "PUT"} => log[n][3] \notin EarlierIds
        /\ (pc = "dt_ret" /\ del.success) => del.tunable_id \notin EarlierIds

\* The selective cleanup found candidates and got its confirmation.
CleanupConfirmed ==
    /\ script = "cleanup"
    /\ test_tunables /= <<>>
    /\ given.force \/ lower(given.answer) = <<"y">>

\* delete_tunable_rest is at work on a candidate or has just returned.
InDeleteRest ==
    \/ pc \in {"dr_delete", "dr_verify", "dr_put", "dr_ret"}
    \/ pc \in {"mon_loop", "mon_ret"} /\ monRet \in {"dr_verify", "dr_ret"}

\* The candidates before the one at hand have been counted, one count each;
\* the call at work is for the candidate at hand and has sent one DELETE at
\* most; the run ends only after the last candidate.
CountsInStep ==
    /\ i \in 1..(Len(test_tunables) + 1)
    /\ \A m, n \in 1..Len(test_tunables) :
          m /= n => test_tunables[m].id /= test_tunables[n].id
    /\ deleted + failed = i - 1
    /\ InDeleteRest =>
          /\ i <= Len(test_tunables)
          /\ del.tunable_id = test_tunables[i].id
          /\ Cardinality({n \in 1..Len(log) : log[n][2] = "DELETE"})
                = IF pc = "dr_delete" THEN 0 ELSE 1
          /\ \A n \in 1..Len(log) :
                log[n][2] \in {"DELETE", "PUT"} => log[n][3] = del.tunable_id
    /\ pc = "exit" =>
          /\ i = Len(test_tunables) + 1
          /\ deleted + failed = Len(test_tunables)

\* A candidate is counted when its delete_tunable_rest has returned or
\* raised, as deleted exactly when it returned: after a list without the id
\* or after a PUT answered 200.
CountedAsReported ==
    (i' /= i \/ deleted' /= deleted \/ failed' /= failed) =>
        /\ pc = "dr_ret"
        /\ i' = i + 1
        /\ deleted' = deleted + (IF del.success THEN 1 ELSE 0)
        /\ failed' = failed + (IF del.success THEN 0 ELSE 1)
        /\ del.success <=> (del.listed = "absent" \/ del.put = "ok")

\* C25: in a confirmed selective cleanup every candidate is attempted
\* exactly once whatever became of the earlier ones, deleted + failed is
\* the number of candidates when the run completes, and a candidate is
\* counted as deleted exactly when its two-phase delete reported success,
\* by the hard delete or by the disabling PUT.
C25_EveryCandidateOnceAndCounted ==
    /\ [](CleanupConfirmed => CountsInStep)
    /\ [][(CleanupConfirmed /\ script' = script) => CountedAsReported]_vars

C25_Witness ==
    /\ CleanupConfirmed /\ pc = "exit"
    /\ Len(test_tunables) = 2
    /\ failed = 1 /\ deleted = 1
    /\ del.success /\ del.put = "ok" /\ del.tunable_id = test_tunables[2].id

====
